---- MODULE Spec2Model ----
(***************************************************************************)
(* The Orlik-Terao algebra of a represented matroid                        *)
(* (src/src/sage/algebras/orlik_terao.py): the broken-circuit dictionary   *)
(* built by __init__, the coefficient chi, the memoized recursive          *)
(* reduction subset_image and the product of basis elements.               *)
(*                                                                         *)
(* A matroid is given by its representation: a record [p, vecs] where p is *)
(* the characteristic of the prime field GF(p), which is also the base     *)
(* ring of the algebra, and vecs is the sequence of representation vectors *)
(* of the ground elements 0 .. Len(vecs)-1.  An element of the algebra is  *)
(* a function from its support (a set of subsets of the ground set) to the *)
(* nonzero coefficients, as CombinatorialFreeModule stores it.             *)
(***************************************************************************)
EXTENDS Integers, Sequences, FiniteSets, TLC

VARIABLES
    M,                \* self._M: the defining matroid (its representation)
    ordering,         \* the ordering tuple handed to __init__
    sorting,          \* self._sorting: element -> position in ordering
    broken_circuits,  \* self._broken_circuits: insertion-ordered dict, a sequence of <<bc, i>>
    indices,          \* self._indices: the keys of the basis, M.no_broken_circuits_sets(ordering)
    chi_table,        \* self._chi, a cached pure method, tabulated on the independent sets
    built,            \* "no" | "yes" | "KeyError" | "ValueError": outcome of the construction
    cache,            \* the memo table of the cached method subset_image: key -> element
    stack,            \* the frames of the subset_image calls in progress (innermost last)
    outcome,          \* what the last top-level call did: "none" | "running" | "value" | "ValueError"
    result,           \* the element the last top-level call returned
    last,             \* the last top-level call: its name and arguments
    ncalls            \* number of top-level calls made so far

vars == <<M, ordering, sorting, broken_circuits, indices, chi_table, built, cache, stack, outcome, result, last, ncalls>>

----------------------------------------------------------------------------
(* Generic helpers on sets and sequences *)

Range(s) == {s[k] : k \in DOMAIN s}

Max(A) == CHOOSE a \in A : \A b \in A : b <= a

RECURSIVE Perms(_)
\* The sequences that enumerate the finite set A once each.
Perms(A) ==
    IF A = {} THEN {<< >>}
    ELSE UNION {{<<a>> \o s : s \in Perms(A \ {a})} : a \in A}

RECURSIVE SortedBy(_, _)
\* sorted(X, key=key.__getitem__) for an injective key.
SortedBy(X, key) ==
    IF X = {} THEN << >>
    ELSE LET m == CHOOSE a \in X : \A b \in X : key[a] <= key[b]
         IN  <<m>> \o SortedBy(X \ {m}, key)

\* sorted(X) for a set of integers.
Sorted(X) == SortedBy(X, [x \in X |-> x])

----------------------------------------------------------------------------
(* Exact arithmetic in the base ring GF(p) and determinants over it *)

Inv(p, a) == CHOOSE b \in 1..(p - 1) : (a * b) % p = 1

\* The matrix m (a sequence of rows) without its first row and its column c.
DropFirstRowAndCol(m, c) ==
    [r \in 1..(Len(m) - 1) |->
        [k \in 1..(Len(m) - 1) |-> IF k < c THEN m[r + 1][k] ELSE m[r + 1][k + 1]]]

RECURSIVE SignedSum(_, _, _)
RECURSIVE Det(_, _)
\* det of a square matrix over GF(p), by expansion along the first row;
\* the determinant of the 0 x 0 matrix is 1.
Det(p, m) ==
    IF Len(m) = 0 THEN 1 ELSE SignedSum(p, m, Len(m))

SignedSum(p, m, c) ==
    IF c = 0 THEN 0
    ELSE LET sign == IF c % 2 = 1 THEN 1 ELSE p - 1
             term == IF m[1][c] = 0 THEN 0
                     ELSE (sign * m[1][c] * Det(p, DropFirstRowAndCol(m, c))) % p
         IN  (SignedSum(p, m, c - 1) + term) % p

----------------------------------------------------------------------------
(* The matroid library, as the algebra queries it *)

groundset(Mat) == 0..(Len(Mat.vecs) - 1)

representation_vectors(Mat) == [x \in groundset(Mat) |-> Mat.vecs[x + 1]]

Columns(Mat) == IF Len(Mat.vecs) = 0 THEN {} ELSE 1..Len(Mat.vecs[1])

\* The rows xs (a sequence of ground elements) restricted to the columns Q.
Restrict(Mat, xs, Q) ==
    LET qs == Sorted(Q)
    IN  [r \in 1..Len(xs) |-> [k \in 1..Len(qs) |-> Mat.vecs[xs[r] + 1][qs[k]]]]

\* Whether the columns Q are independent in the matrix whose rows are the vectors of F.
ColumnsIndependent(Mat, F, Q) ==
    \E Y \in SUBSET F :
        /\ Cardinality(Y) = Cardinality(Q)
        /\ Det(Mat.p, Restrict(Mat, Sorted(Y), Q)) # 0

is_independent(Mat, X) ==
    \E Q \in SUBSET Columns(Mat) :
        /\ Cardinality(Q) = Cardinality(X)
        /\ Det(Mat.p, Restrict(Mat, Sorted(X), Q)) # 0

rank(Mat, X) ==
    Max({Cardinality(Y) : Y \in {Z \in SUBSET X : is_independent(Mat, Z)}})

closure(Mat, X) ==
    {e \in groundset(Mat) : rank(Mat, X \cup {e}) = rank(Mat, X)}

\* The minimal dependent sets of the vectors.
MinimalDependentSets(Mat) ==
    {C \in SUBSET groundset(Mat) :
        /\ ~is_independent(Mat, C)
        /\ \A e \in C : is_independent(Mat, C \ {e})}

\* The matroid of the vectors vecs over GF(p), which knows its circuits.
Matroid(p, vecs) ==
    [p |-> p, vecs |-> vecs, circuits |-> MinimalDependentSets([p |-> p, vecs |-> vecs])]

circuits(Mat) == Mat.circuits

loops(Mat) == {e \in groundset(Mat) : ~is_independent(Mat, {e})}

----------------------------------------------------------------------------
(* Elements of the algebra: finitely supported, zero coefficients never stored *)

zero == [k \in {} |-> 0]

monomial(S) == [k \in {S} |-> 1]

Coefficient(a, k) == IF k \in DOMAIN a THEN a[k] ELSE 0

\* a + b over GF(p)
Add(p, a, b) ==
    LET K == {k \in DOMAIN a \cup DOMAIN b : (Coefficient(a, k) + Coefficient(b, k)) % p # 0}
    IN  [k \in K |-> (Coefficient(a, k) + Coefficient(b, k)) % p]

\* c * a over GF(p)
Scale(p, c, a) ==
    IF c % p = 0 THEN zero ELSE [k \in DOMAIN a |-> (c * a[k]) % p]

----------------------------------------------------------------------------
(* Construction: the ordering and the dictionary of broken circuits *)

\* self._sorting = {x: i for i, x in enumerate(ordering)}
MakeSorting(ord) ==
    [x \in Range(ord) |-> Max({k \in DOMAIN ord : ord[k] = x}) - 1]

\* d[key] = value on an insertion-ordered dict: a present key keeps its place.
DictSet(d, key, value) ==
    IF \E k \in DOMAIN d : d[k][1] = key
    THEN [k \in DOMAIN d |-> IF d[k][1] = key THEN <<key, value>> ELSE d[k]]
    ELSE Append(d, <<key, value>>)

\* A variant that takes the key from L[2:].
BrokenCircuitEntryShort(c, srt) ==
    LET L == SortedBy(c, srt)
    IN  <<Range(SubSeq(L, 3, Len(L))), L[1]>>

\* A variant that records L[-1], the element that stands last, with the key L[1:].
BrokenCircuitEntryLast(c, srt) ==
    LET L == SortedBy(c, srt)
    IN  <<Range(Tail(L)), L[Len(L)]>>

\* L = sorted(c, key=self._sorting.__getitem__); the entry frozenset(L[1:]) -> L[0]
BrokenCircuitEntry(c, srt) ==
    LET L == SortedBy(c, srt)
    IN  <<Range(Tail(L)), L[1]>>

RECURSIVE BuildBrokenCircuits(_, _, _)
\* The loop of __init__ over the circuits, in the order cs in which circuits() yields them.
BuildBrokenCircuits(cs, srt, d) ==
    IF cs = << >> THEN d
    ELSE LET e == BrokenCircuitEntry(Head(cs), srt)
         IN  BuildBrokenCircuits(Tail(cs), srt, DictSet(d, e[1], e[2]))

\* sorted(c, ...) raises KeyError when an element of a circuit has no position.
InitRaisesKeyError(Mat, srt) ==
    \E c \in circuits(Mat) : ~(c \subseteq DOMAIN srt)

----------------------------------------------------------------------------
(* The coefficient chi *)

ColumnRank(Mat, F, Q) ==
    Max({Cardinality(Z) : Z \in {Y \in SUBSET Q : ColumnsIndependent(Mat, F, Y)}})

\* The row module of the vectors of the flat F, given by the pivot columns of its
\* reduced echelon basis: the coordinates of a vector of the module in that basis
\* are its entries in the pivot columns.
flat_module(Mat, F) ==
    {c \in Columns(Mat) : ColumnRank(Mat, F, 1..c) > ColumnRank(Mat, F, 1..(c - 1))}

AssertionError == "AssertionError"

\* chi(X): the determinant of the vectors of X, sorted by the ordering, in the
\* echelon coordinates of the flat they span.
chi(Mat, srt, X) ==
    IF ~is_independent(Mat, X) THEN AssertionError
    ELSE Det(Mat.p, Restrict(Mat, SortedBy(X, srt), flat_module(Mat, closure(Mat, X))))

\* self._chi on every set on which its assertion holds and its sort finds the keys.
ChiTable(Mat, srt) ==
    [X \in {Y \in SUBSET (groundset(Mat) \cap DOMAIN srt) : is_independent(Mat, Y)} |->
        chi(Mat, srt, X)]

----------------------------------------------------------------------------
(* subset_image as a function of its argument and of the memo table.  The    *)
(* parameter A stands for self: the record of the fields of the algebra.    *)

\* A variant that matches proper subsets only (bc < S for bc.issubset(S)).
FirstMatchProper(bcs, S) ==
    IF \E k \in DOMAIN bcs : bcs[k][1] \subseteq S /\ bcs[k][1] # S
    THEN CHOOSE k \in DOMAIN bcs :
            /\ bcs[k][1] \subseteq S /\ bcs[k][1] # S
            /\ \A l \in 1..(k - 1) : ~(bcs[l][1] \subseteq S /\ bcs[l][1] # S)
    ELSE 0

\* Position of the first entry of the dictionary whose key is a subset of S; 0 if none.
FirstMatch(bcs, S) ==
    IF \E k \in DOMAIN bcs : bcs[k][1] \subseteq S
    THEN CHOOSE k \in DOMAIN bcs :
            /\ bcs[k][1] \subseteq S
            /\ \A l \in 1..(k - 1) : ~(bcs[l][1] \subseteq S)
    ELSE 0

\* A variant with the sign mone**(ind + 1).
TermCoefficientOffByOne(p, ind, coeff, lc) ==
    ((IF ind % 2 = 0 THEN p - 1 ELSE 1) * coeff * Inv(p, lc)) % p

\* mone**ind * R(coeff / lc)
TermCoefficient(p, ind, coeff, lc) ==
    ((IF ind % 2 = 0 THEN 1 ELSE p - 1) * coeff * Inv(p, lc)) % p

\* A variant that exchanges the roles of i and j: the key S again.
ReducedSwapped(S, i, j) == (S \cup {j}) \ {i}

\* A variant that removes j from S instead of from Si.
ReducedWithoutI(S, i, j) == S \ {j}

\* Si.difference({j}) with Si = S.union({i}): the argument of the recursive call.
Reduced(S, i, j) == (S \cup {i}) \ {j}

\* The coefficient of subset_image(Reduced(S, i, j)) in the round ind of the loop
\* for the broken circuit bc with recorded element i; 0 when chi(C - {j}) is 0.
RoundCoefficient(A, bc, i, ind, j) ==
    LET C == bc \cup {i}
        lc == A.chi[bc]
        coeff == A.chi[C \ {j}]
    IN  IF coeff # 0 THEN TermCoefficient(A.M.p, ind, coeff, lc) ELSE 0

RECURSIVE subset_image(_, _, _)
RECURSIVE ReduceLoop(_, _, _, _, _, _, _)
\* The value of self.subset_image(S) when memo holds the values computed so far.
subset_image(A, memo, S) ==
    IF S \in DOMAIN memo THEN memo[S]
    ELSE LET k == FirstMatch(A.broken_circuits, S)
         IN  IF k = 0 THEN monomial(S)
             ELSE IF A.broken_circuits[k][2] \in S THEN zero
             ELSE ReduceLoop(A, memo, S, A.broken_circuits[k][1], A.broken_circuits[k][2],
                             SortedBy(A.broken_circuits[k][1], A.sorting),
                             Cardinality(A.broken_circuits[k][1]))

\* r after the first n rounds of the loop over enumerate(sorted(bc, ...)).
ReduceLoop(A, memo, S, bc, i, js, n) ==
    IF n = 0 THEN zero
    ELSE LET r == ReduceLoop(A, memo, S, bc, i, js, n - 1)
             c == RoundCoefficient(A, bc, i, n - 1, js[n])
         IN  IF c # 0
             THEN Add(A.M.p, r, Scale(A.M.p, c, subset_image(A, memo, Reduced(S, i, js[n]))))
             ELSE r

RECURSIVE Computed(_, _, _)
\* The keys whose value a call subset_image(S) computes and stores: S and the
\* arguments of the recursive calls, as far as they are not memoized already.
Computed(A, memo, S) ==
    IF S \in DOMAIN memo THEN {}
    ELSE LET k == FirstMatch(A.broken_circuits, S)
         IN  IF k = 0 \/ A.broken_circuits[k][2] \in S THEN {S}
             ELSE LET bc == A.broken_circuits[k][1]
                      i == A.broken_circuits[k][2]
                      js == SortedBy(bc, A.sorting)
                      called == {n \in DOMAIN js : RoundCoefficient(A, bc, i, n - 1, js[n]) # 0}
                  IN  {S} \cup UNION {Computed(A, memo, Reduced(S, i, js[n])) : n \in called}

\* The memo table after the calls subset_image(S), S in Ss, have returned.
Memoize(A, memo, Ss) ==
    LET new == UNION {Computed(A, memo, S) : S \in Ss}
    IN  [K \in DOMAIN memo \cup new |->
            IF K \in DOMAIN memo THEN memo[K] ELSE subset_image(A, memo, K)]

----------------------------------------------------------------------------
(* The basis, the unit, the product and the generators *)

\* M.no_broken_circuits_sets(ordering): the subsets of the ground set that contain
\* no circuit with its least element (in the ordering ord) removed.
no_broken_circuits_sets(Mat, ord) ==
    LET srt == MakeSorting(ord)
        broken == {Range(Tail(SortedBy(c, srt))) : c \in circuits(Mat)}
    IN  {S \in SUBSET groundset(Mat) : \A bc \in broken : ~(bc \subseteq S)}

one_basis == {}

\* self.one() of an algebra with basis: the monomial of one_basis().
one == monomial(one_basis)

\* A variant without the test a.intersection(b).
product_on_basis_unchecked(A, memo, a, b) ==
    IF a = {} THEN monomial(b)
    ELSE IF b = {} THEN monomial(a)
    ELSE subset_image(A, memo, b \cup a)

\* product_on_basis(a, b)
product_on_basis(A, memo, a, b) ==
    IF a = {} THEN monomial(b)
    ELSE IF b = {} THEN monomial(a)
    ELSE IF a \cap b # {} THEN zero
    ELSE subset_image(A, memo, b \cup a)

\* The arguments of the calls of subset_image that product_on_basis(a, b) makes.
ProductCalls(a, b) ==
    IF a = {} \/ b = {} \/ a \cap b # {} THEN {} ELSE {b \cup a}

RECURSIVE SumOf(_, _, _)
\* The sum of the elements f[d], d in D.
SumOf(p, f, D) ==
    IF D = {} THEN zero
    ELSE LET d == CHOOSE e \in D : TRUE
         IN  Add(p, f[d], SumOf(p, f, D \ {d}))

\* x * y: the bilinear extension of product_on_basis.
Multiply(A, memo, x, y) ==
    LET D == (DOMAIN x) \X (DOMAIN y)
        f == [d \in D |-> Scale(A.M.p, x[d[1]] * y[d[2]],
                                product_on_basis(A, memo, d[1], d[2]))]
    IN  SumOf(A.M.p, f, D)

MultiplyCalls(x, y) ==
    UNION {ProductCalls(d[1], d[2]) : d \in (DOMAIN x) \X (DOMAIN y)}

\* algebra_generators()[x]
Generator(A, memo, x) == subset_image(A, memo, {x})

RECURSIVE ProdLeft(_, _, _)
\* G[fs[1]] * G[fs[2]] * ... * G[fs[n]], multiplied from the left; fs is not empty.
ProdLeft(A, memo, fs) ==
    IF Len(fs) = 1 THEN Generator(A, memo, fs[1])
    ELSE Multiply(A, memo, ProdLeft(A, memo, SubSeq(fs, 1, Len(fs) - 1)),
                  Generator(A, memo, fs[Len(fs)]))

\* self.prod([G[x] for x in fs]): the unit times the product of the factors.
Prod(A, memo, fs) ==
    IF fs = << >> THEN one
    ELSE Multiply(A, memo, one, ProdLeft(A, memo, fs))

RECURSIVE ProdCalls(_, _, _)
\* The arguments of the calls of subset_image made while the product of fs is formed.
ProdCalls(A, memo, fs) ==
    IF Len(fs) <= 1 THEN {}
    ELSE LET init == SubSeq(fs, 1, Len(fs) - 1)
         IN  ProdCalls(A, memo, init)
             \cup MultiplyCalls(ProdLeft(A, memo, init), Generator(A, memo, fs[Len(fs)]))

----------------------------------------------------------------------------
(* The matroids, orderings and arguments the model is run on *)

\* Represented matroids on at most four elements over GF(3) and GF(5).
Matroids ==
    { Matroid(3, << <<1, 0>>, <<0, 1>>, <<1, 1>>, <<1, 2>> >>),             \* U(2,4)
      Matroid(5, << <<1, 0>>, <<2, 1>>, <<1, 3>> >>),                       \* U(2,3) over GF(5)
      Matroid(3, << <<1, 0>>, <<2, 0>>, <<0, 1>>, <<1, 1>> >>),             \* a parallel pair in rank 2
      Matroid(3, << <<0, 1>>, <<0, 0>>, <<1, 1>>, <<1, 0>> >>),             \* a loop and a triangle
      Matroid(3, << <<1, 0, 0>>, <<0, 1, 0>>, <<0, 0, 1>>, <<1, 1, 1>> >>), \* U(3,4)
      Matroid(5, << <<0, 1, 2>>, <<1, 0, 0>>, <<0, 3, 1>>, <<0, 1, 1>> >>), \* a triangle and a coloop
      Matroid(3, << <<1, 0>>, <<0, 1>>, <<2, 0>> >>),                       \* a parallel pair and a coloop
      Matroid(3, << <<1, 2>>, <<0, 1>> >>) }                                \* free of rank 2

\* __classcall_private__ with ordering=None: sorted(M.groundset())
classcall_default(Mat) == Sorted(groundset(Mat))

\* The ordering arguments that are orderings of the ground set.
Orderings(Mat) == Perms(groundset(Mat)) \cup {classcall_default(Mat)}

\* Number of top-level calls in a behaviour.
MaxCalls == 1

\* Bound on the nesting depth of the calls in progress.
MaxDepth == 8

----------------------------------------------------------------------------
(* The algebra after construction, and the calls made on it *)

\* The state after __init__(R, M, ordering) has run, circuits() having yielded the
\* circuits in the order cs, with empty memo tables.
Constructed(Mat, ord, srt, bcs, nbc, chis) ==
    /\ M = Mat
    /\ ordering = ord
    /\ sorting = srt
    /\ broken_circuits = bcs
    /\ indices = nbc
    /\ chi_table = chis
    /\ built = "yes"
    /\ cache = zero
    /\ stack = << >>
    /\ outcome = "none"
    /\ result = zero
    /\ last = <<"init">>
    /\ ncalls = 0

Init ==
    \E Mat \in Matroids : \E circs \in {circuits(Mat)} :
        \E ord \in Orderings(Mat) : \E srt \in {MakeSorting(ord)} :
            \E nbc \in {no_broken_circuits_sets(Mat, ord)} : \E chis \in {ChiTable(Mat, srt)} :
                \E cs \in Perms(circs) :
                    Constructed(Mat, ord, srt, BuildBrokenCircuits(cs, srt, << >>), nbc, chis)

\* The fields of the algebra object.
self ==
    [M |-> M, sorting |-> sorting, broken_circuits |-> broken_circuits, chi |-> chi_table]

fields == <<M, ordering, sorting, broken_circuits, indices, chi_table, built>>

Idle == built = "yes" /\ stack = << >> /\ outcome = "none" /\ ncalls < MaxCalls

\* A frozenset argument.
FrozenSet(S) == [type |-> "frozenset", elems |-> S]

\* OT.subset_image(arg), from the call to its return.
SubsetImageCall(arg) ==
    /\ Idle
    /\ ncalls' = ncalls + 1
    /\ last' = <<"subset_image", arg>>
    /\ IF arg.type # "frozenset"
       THEN /\ outcome' = "ValueError"
            /\ UNCHANGED <<cache, result>>
       ELSE /\ outcome' = "value"
            /\ result' = subset_image(self, cache, arg.elems)
            /\ cache' = Memoize(self, cache, {arg.elems})
    /\ UNCHANGED <<fields, stack>>

\* OT.product_on_basis(a, b) for basis indices a and b.
ProductOnBasisCall(a, b) ==
    /\ Idle
    /\ ncalls' = ncalls + 1
    /\ last' = <<"product_on_basis", a, b>>
    /\ outcome' = "value"
    /\ result' = product_on_basis(self, cache, a, b)
    /\ cache' = Memoize(self, cache, ProductCalls(a, b))
    /\ UNCHANGED <<fields, stack>>

\* G = OT.algebra_generators(); OT.prod([G[x] for x in fs])
ProdCall(fs) ==
    /\ Idle
    /\ ncalls' = ncalls + 1
    /\ last' = <<"prod", fs>>
    /\ outcome' = "value"
    /\ LET gens == Memoize(self, cache, {{x} : x \in groundset(M)})
       IN  /\ result' = Prod(self, gens, fs)
           /\ cache' = Memoize(self, gens, ProdCalls(self, gens, fs))
    /\ UNCHANGED <<fields, stack>>

\* The caller drops the element the last call returned.
Discard ==
    /\ built = "yes"
    /\ stack = << >>
    /\ outcome # "none"
    /\ outcome' = "none"
    /\ result' = zero
    /\ last' = <<"none">>
    /\ UNCHANGED <<fields, cache, stack, ncalls>>

\* The calls of subset_image on the subsets of the ground set.
Next ==
    \/ \E S \in SUBSET groundset(M) : SubsetImageCall(FrozenSet(S))
    \/ Discard

Spec == Init /\ [][Next]_vars

\* The calls of product_on_basis on the basis indices.
NextBasis ==
    \/ \E a, b \in indices : ProductOnBasisCall(a, b)
    \/ Discard

SpecBasis == Init /\ [][NextBasis]_vars

----------------------------------------------------------------------------
(* Products of generators *)

\* The sequences of distinct ground elements.
Factors(Mat) == UNION {Perms(S) : S \in SUBSET groundset(Mat)}

NextProd ==
    \/ \E fs \in Factors(M) : ProdCall(fs)
    \/ Discard

SpecProd == Init /\ [][NextProd]_vars

----------------------------------------------------------------------------
(* Arguments of subset_image of any kind *)

\* An element that is not in the ground set.
Foreign(Mat) == Len(Mat.vecs)

\* Frozensets and tuples of ground elements and of the foreign element.
Arguments(Mat) ==
    [type : {"frozenset", "tuple"}, elems : SUBSET (groundset(Mat) \cup {Foreign(Mat)})]

NextInput ==
    \/ \E arg \in Arguments(M) : SubsetImageCall(arg)
    \/ Discard

SpecInput == Init /\ [][NextInput]_vars

----------------------------------------------------------------------------
(* Construction from any ordering argument *)

NoOrdering == "None"

\* Orderings of the ground set, and such an ordering with its last element left
\* out, with a foreign element added, and with its first element repeated.
OrderingArguments(Mat) ==
    LET perms == Perms(groundset(Mat))
    IN  perms
        \cup {SubSeq(s, 1, Len(s) - 1) : s \in perms}
        \cup {Append(s, Foreign(Mat)) : s \in perms}
        \cup {Append(s, s[1]) : s \in perms}

\* Before the constructor is called: the matroid exists, the algebra does not.
InitCons ==
    /\ M \in Matroids
    /\ ordering = << >>
    /\ sorting = << >>
    /\ broken_circuits = << >>
    /\ indices = {}
    /\ chi_table = << >>
    /\ built = "no"
    /\ cache = zero
    /\ stack = << >>
    /\ outcome = "none"
    /\ result = zero
    /\ last = <<"none">>
    /\ ncalls = 0

\* The matroid library is not bound to accept, in no_broken_circuits_sets, an
\* ordering whose elements are not those of the ground set: it may raise.
LibraryMayRaise(Mat, ord) == Range(ord) # groundset(Mat)

\* __init__ with the ordering ord; circuits() yields the circuits in any order.
Initialize(ord) ==
    \E srt \in {MakeSorting(ord)} :
        IF InitRaisesKeyError(M, srt)
        THEN /\ built' = "KeyError"
             /\ ordering' = ord
             /\ UNCHANGED <<M, sorting, broken_circuits, indices, chi_table>>
        ELSE \/ /\ LibraryMayRaise(M, ord)
                /\ built' = "ValueError"
                /\ ordering' = ord
                /\ UNCHANGED <<M, sorting, broken_circuits, indices, chi_table>>
             \/ /\ built' = "yes"
                /\ ordering' = ord
                /\ sorting' = srt
                /\ indices' = no_broken_circuits_sets(M, ord)
                /\ chi_table' = ChiTable(M, srt)
                /\ UNCHANGED M
                /\ \E cs \in Perms(circuits(M)) :
                       broken_circuits' = BuildBrokenCircuits(cs, srt, << >>)

\* OrlikTeraoAlgebra(R, M, ordering=arg)
Construct(arg) ==
    /\ built = "no"
    /\ Initialize(arg)
    /\ last' = <<"init", arg>>
    /\ UNCHANGED <<cache, stack, outcome, result, ncalls>>

\* OrlikTeraoAlgebra(R, M): the ordering is None
ConstructDefault ==
    /\ built = "no"
    /\ Initialize(classcall_default(M))
    /\ last' = <<"init", NoOrdering>>
    /\ UNCHANGED <<cache, stack, outcome, result, ncalls>>

NextCons ==
    \/ ConstructDefault
    \/ \E arg \in OrderingArguments(M) : Construct(arg)

SpecCons == InitCons /\ [][NextCons]_vars

----------------------------------------------------------------------------
(* subset_image call by call: the frames of the calls in progress *)

\* The frame of a call subset_image(S) whose value is not memoized, after its scan
\* of the dictionary: an NBC set and a set with a circuit have their value at
\* once; a set to reduce has a loop over js ahead of it, at round ind, with r = 0.
Frame(A, S) ==
    LET k == FirstMatch(A.broken_circuits, S)
    IN  IF k = 0
        THEN [S |-> S, kind |-> "nbc", js |-> << >>, ind |-> 0, r |-> monomial(S)]
        ELSE IF A.broken_circuits[k][2] \in S
        THEN [S |-> S, kind |-> "circuit", js |-> << >>, ind |-> 0, r |-> zero]
        ELSE [S |-> S, kind |-> "reduce", bc |-> A.broken_circuits[k][1],
              i |-> A.broken_circuits[k][2],
              js |-> SortedBy(A.broken_circuits[k][1], A.sorting), ind |-> 0, r |-> zero]

Top == stack[Len(stack)]

\* The frame f after the round for js[ind + 1], the recursive call having returned v.
Accumulate(A, f, c, v) ==
    [f EXCEPT !.ind = f.ind + 1,
              !.r = IF c # 0 THEN Add(A.M.p, f.r, Scale(A.M.p, c, v)) ELSE f.r]

\* The coefficient of the round the frame f is at.
FrameCoefficient(A, f) == RoundCoefficient(A, f.bc, f.i, f.ind, f.js[f.ind + 1])

\* The argument of the recursive call of the round the frame f is at.
FrameCallee(f) == Reduced(f.S, f.i, f.js[f.ind + 1])

ReplaceTop(st, f) == [st EXCEPT ![Len(st)] = f]

\* OT.subset_image(frozenset(S)) is called: a memoized value is returned at once.
RecCall(S) ==
    /\ Idle
    /\ ncalls' = ncalls + 1
    /\ last' = <<"subset_image", FrozenSet(S)>>
    /\ IF S \in DOMAIN cache
       THEN /\ outcome' = "value"
            /\ result' = cache[S]
            /\ UNCHANGED stack
       ELSE /\ outcome' = "running"
            /\ stack' = <<Frame(self, S)>>
            /\ UNCHANGED result
    /\ UNCHANGED <<fields, cache>>

\* One round of the loop of the innermost call: the term is skipped, or taken from
\* the memo table, or its recursive call is entered.
RecRound ==
    /\ stack # << >>
    /\ Top.ind < Len(Top.js)
    /\ LET c == FrameCoefficient(self, Top)
           T == FrameCallee(Top)
       IN  IF c = 0
           THEN stack' = ReplaceTop(stack, Accumulate(self, Top, 0, zero))
           ELSE IF T \in DOMAIN cache
           THEN stack' = ReplaceTop(stack, Accumulate(self, Top, c, cache[T]))
           ELSE /\ Len(stack) < MaxDepth
                /\ stack' = Append(stack, Frame(self, T))
    /\ UNCHANGED <<fields, cache, outcome, result, last, ncalls>>

\* The innermost call returns: its value is memoized and handed to its caller.
RecReturn ==
    /\ stack # << >>
    /\ Top.ind = Len(Top.js)
    /\ cache' = [K \in DOMAIN cache \cup {Top.S} |-> IF K = Top.S THEN Top.r ELSE cache[K]]
    /\ IF Len(stack) = 1
       THEN /\ stack' = << >>
            /\ outcome' = "value"
            /\ result' = Top.r
       ELSE /\ LET caller == stack[Len(stack) - 1]
               IN  stack' = ReplaceTop(SubSeq(stack, 1, Len(stack) - 1),
                                 Accumulate(self, caller, FrameCoefficient(self, caller), Top.r))
            /\ UNCHANGED <<outcome, result>>
    /\ UNCHANGED <<fields, last, ncalls>>

NextRec ==
    \/ \E S \in SUBSET groundset(M) : RecCall(S)
    \/ RecRound
    \/ RecReturn
    \/ Discard

SpecRec == Init /\ [][NextRec]_vars

\* A call in progress goes on: the program is sequential and nothing else runs.
SpecRecFair == SpecRec /\ WF_vars(RecRound \/ RecReturn)

\* The call-by-call model computes what subset_image(A, memo, S) computes.
RecAgrees ==
    /\ \A K \in DOMAIN cache : cache[K] = subset_image(self, zero, K)
    /\ (outcome = "value" /\ last[1] = "subset_image")
          => result = subset_image(self, zero, last[2].elems)
    /\ (outcome = "value" /\ ncalls = 1) => cache = Memoize(self, zero, {last[2].elems})

----------------------------------------------------------------------------
(* One call of subset_image on a new algebra, also of a larger matroid *)

\* Five parallel elements: every pair is a circuit.
DeepMatroids == { Matroid(3, << <<1>>, <<2>>, <<1>>, <<2>>, <<1>> >>) }

\* The dictionaries the loop of __init__ can leave, over all orders in which
\* circuits() can yield the circuits: the keys stand in the order of their first
\* insertion, which can be any, and each key holds the element of any of the
\* circuits it comes from, the one yielded last.
PossibleDictionaries(Mat, srt) ==
    LET entries == {BrokenCircuitEntry(c, srt) : c \in circuits(Mat)}
        keys == {e[1] : e \in entries}
        kept == {f \in [keys -> groundset(Mat)] : \A bc \in keys : <<bc, f[bc]>> \in entries}
    IN  UNION {{[k \in DOMAIN ks |-> <<ks[k], f[ks[k]]>>] : f \in kept} : ks \in Perms(keys)}

\* A new algebra of a matroid of the catalogue, or of a larger matroid with the
\* default ordering.
InitDepth ==
    \/ Init
    \/ \E Mat \in DeepMatroids : \E ord \in {classcall_default(Mat)} :
          \E srt \in {MakeSorting(ord)} :
             \E nbc \in {no_broken_circuits_sets(Mat, ord)} : \E chis \in {ChiTable(Mat, srt)} :
                \E bcs \in PossibleDictionaries(Mat, srt) :
                    Constructed(Mat, ord, srt, bcs, nbc, chis)

\* One call, followed to its return: the memo table is empty when it starts.
NextDepth ==
    \/ \E S \in SUBSET groundset(M) : RecCall(S)
    \/ RecRound
    \/ RecReturn

SpecDepth == InitDepth /\ [][NextDepth]_vars

----------------------------------------------------------------------------
(* The claims *)

\* C1: every call subset_image(S), S a subset of the ground set, terminates:
\* whatever calls are in progress, the state in which all frames have returned
\* comes again.
C1_Terminates == []<>(stack = << >>)

\* No key is computed while it is being computed, and every recursive call is for
\* a key whose elements stand lower in the ordering, taken together.
RankSum(K) == LET RECURSIVE Sum(_)
                  Sum(X) == IF X = {} THEN 0
                            ELSE LET x == CHOOSE y \in X : TRUE
                                 IN  sorting[x] + Sum(X \ {x})
              IN  Sum(K)

NoKeyDependsOnItself ==
    \A a, b \in DOMAIN stack :
        a < b => stack[a].S # stack[b].S /\ RankSum(stack[b].S) < RankSum(stack[a].S)

\* C1 witness: a recursive call has been entered from within a call.
C1_Witness == Len(stack) >= 2 /\ stack[1].kind = "reduce" /\ Cardinality(stack[1].S) >= 2

\* The last call was subset_image(frozenset(S)) and it returned an element.
Returned(S) == outcome = "value" /\ last = <<"subset_image", FrozenSet(S)>>

\* The recorded broken circuits that are subsets of S.
Matching(S) == {k \in DOMAIN broken_circuits : broken_circuits[k][1] \subseteq S}

\* C2: every key of the element subset_image(S) returns, and of every element in
\* the memo table, is a no-broken-circuit set under the algebra's ordering: it is
\* a basis index and no recorded broken circuit is a subset of it.
C2_NBCClosure ==
    LET NBC(K) == K \in indices /\ Matching(K) = {}
    IN  /\ \A S \in SUBSET groundset(M) : Returned(S) => \A K \in DOMAIN result : NBC(K)
        /\ \A S \in DOMAIN cache : \A K \in DOMAIN cache[S] : NBC(K)

\* C2 witness: a set that is itself a broken circuit was rewritten into several
\* NBC monomials.
C2_Witness ==
    \E S \in SUBSET groundset(M) :
        /\ Returned(S)
        /\ \E k \in DOMAIN broken_circuits : broken_circuits[k][1] = S
        /\ Cardinality(DOMAIN result) >= 2
        /\ DOMAIN result \subseteq indices

\* S contains a circuit of the matroid.
ContainsCircuit(S) == \E C \in circuits(M) : C \subseteq S

\* C3: when S contains a circuit of the matroid, subset_image(S) is the zero
\* element (no terms).
C3_ZeroLaw ==
    \A S \in SUBSET groundset(M) : (Returned(S) /\ ContainsCircuit(S)) => result = zero

\* C3 witness: S contains a circuit but not the element recorded for the first
\* broken circuit found in it, so that zero came out of the rewriting loop.
C3_Witness ==
    \E S \in SUBSET groundset(M) :
        /\ Returned(S)
        /\ ContainsCircuit(S)
        /\ FirstMatch(broken_circuits, S) # 0
        /\ broken_circuits[FirstMatch(broken_circuits, S)][2] \notin S
        /\ result = zero

\* C4 as stated: for every matroid and ordering subset_image(frozenset()) is the
\* element with the single term (empty set -> 1).
C4_UnitLaw_EveryMatroid == Returned({}) => result = monomial({})

\* C4: for a matroid without loops subset_image(frozenset()) is the element with
\* the single term (empty set -> 1); for a matroid with a loop, where the empty
\* set is a recorded broken circuit, it is the zero element.
C4_UnitLaw ==
    Returned({}) => result = (IF loops(M) = {} THEN monomial({}) ELSE zero)

\* C4 witness: subset_image(frozenset()) returned the unit in an algebra that has
\* broken circuits.
C4_Witness ==
    Returned({}) /\ loops(M) = {} /\ broken_circuits # << >> /\ result = one

\* C5: for basis indices a and b that are disjoint product_on_basis(a, b) is
\* subset_image(a | b), which is the monomial of the other index when one of them
\* is empty; for indices that share an element it is zero.
C5_DisjointProduct ==
    \A a, b \in indices :
        (outcome = "value" /\ last = <<"product_on_basis", a, b>>) =>
            IF a \cap b = {}
            THEN /\ result = subset_image(self, zero, a \cup b)
                 /\ a = {} => result = monomial(b)
                 /\ b = {} => result = monomial(a)
            ELSE result = zero

\* C5 witness: the product of two nonempty disjoint indices whose union is not an
\* NBC set was rewritten into NBC monomials.
C5_Witness ==
    \E a, b \in indices :
        /\ outcome = "value" /\ last = <<"product_on_basis", a, b>>
        /\ a # {} /\ b # {} /\ a \cap b = {}
        /\ (a \cup b) \notin indices
        /\ result # zero

\* The prod call made last, if any, multiplied the generators fs.
Multiplied(fs) == outcome = "value" /\ last = <<"prod", fs>>

\* C6 as stated: the product of the generators of the elements of a subset S of
\* the ground set, in any order of the factors, is subset_image(S).
C6_ProductOfGenerators ==
    \A fs \in Factors(M) : Multiplied(fs) => result = subset_image(self, zero, Range(fs))

\* What C6 leaves standing: the products of one or more generators, and every
\* product in an algebra of a matroid without loops.
ProductOfGeneratorsElsewhere ==
    \A fs \in Factors(M) :
        (Multiplied(fs) /\ (fs # << >> \/ loops(M) = {}))
            => result = subset_image(self, zero, Range(fs))

\* The sequence ord lists every element of the ground set of Mat exactly once.
IsPermutation(ord, Mat) ==
    Len(ord) = Cardinality(groundset(Mat)) /\ Range(ord) = groundset(Mat)

\* C7 as stated: a construction with an ordering that is not a permutation of the
\* ground set fails with an error, whatever the name of the error, and no algebra
\* with such an ordering is ever produced.
C7_InvalidOrderingRejected ==
    (built # "no" /\ ~IsPermutation(ordering, M)) => built \in {"KeyError", "ValueError"}

\* What C7 leaves standing: an ordering that lacks an element of a circuit is
\* refused, with the KeyError of the sort of that circuit.
CircuitElementMissingRejected ==
    (built # "no" /\ \E c \in circuits(M) : ~(c \subseteq Range(ordering)))
        => built = "KeyError"

\* The argument arg of subset_image is a frozenset of elements of the ground set.
WellFormed(arg) == arg.type = "frozenset" /\ arg.elems \subseteq groundset(M)

\* C8 as stated: a call of subset_image with an argument that is not a frozenset
\* of ground elements raises an error, whatever its name, and its key is absent
\* from the memo table.
C8_InvalidInputRejected ==
    \A arg \in Arguments(M) :
        (last = <<"subset_image", arg>> /\ ~WellFormed(arg)) =>
            /\ outcome \notin {"value", "none"}
            /\ ~(arg.type = "frozenset" /\ arg.elems \in DOMAIN cache)

\* What C8 leaves standing: an argument that is not a frozenset raises ValueError
\* and the memo table holds nothing but values of subset_image.
NonFrozensetRejected ==
    /\ \A arg \in Arguments(M) :
          (last = <<"subset_image", arg>> /\ arg.type # "frozenset")
              => outcome = "ValueError" /\ cache = zero
    /\ \A K \in DOMAIN cache : cache[K] = subset_image(self, zero, K)

\* The keys of the dictionary of broken circuits.
Keys(d) == {d[k][1] : k \in DOMAIN d}

\* The value the dictionary d holds for the key bc.
Lookup(d, bc) == d[CHOOSE k \in DOMAIN d : d[k][1] = bc][2]

\* The elements of the circuit C that no element of C precedes in the ordering.
Minimal(C) == {m \in C : \A x \in C : sorting[m] <= sorting[x]}

\* C9 as stated: one entry per circuit; the broken circuit C \ {m} of every
\* circuit C with order-minimal element m is mapped to m.
C9_OneEntryPerCircuit ==
    built = "yes" =>
        /\ Len(broken_circuits) = Cardinality(circuits(M))
        /\ \A C \in circuits(M) : \A m \in Minimal(C) :
              /\ (C \ {m}) \in Keys(broken_circuits)
              /\ Lookup(broken_circuits, C \ {m}) = m

\* C9: after construction the index holds one entry per distinct broken circuit:
\* its keys are pairwise distinct and are the sets C \ {m}, C a circuit with
\* order-minimal element m; the value held for a key bc is the order-minimal
\* element of a circuit whose broken circuit is bc.
C9_OneEntryPerBrokenCircuit ==
    built = "yes" =>
        /\ \A k, l \in DOMAIN broken_circuits :
              broken_circuits[k][1] = broken_circuits[l][1] => k = l
        /\ Keys(broken_circuits) = {C \ Minimal(C) : C \in circuits(M)}
        /\ \A k \in DOMAIN broken_circuits :
              LET bc == broken_circuits[k][1]
                  m == broken_circuits[k][2]
              IN  (bc \cup {m}) \in circuits(M) /\ m \notin bc /\ Minimal(bc \cup {m}) = {m}

\* C9 witness: two circuits share their broken circuit and the index, built, has
\* fewer entries than the matroid has circuits.
C9_Witness ==
    /\ built = "yes"
    /\ IsPermutation(ordering, M)
    /\ Len(broken_circuits) < Cardinality(circuits(M))
    /\ \E C, D \in circuits(M) : C # D /\ C \ Minimal(C) = D \ Minimal(D)

\* The dictionaries of broken circuits the constructor can build for the matroid
\* and the ordering of the algebra: one for each order in which circuits() can
\* yield the circuits, which decides the order of the keys and the element kept
\* for a broken circuit that two circuits share.
Dictionaries == {BuildBrokenCircuits(cs, sorting, << >>) : cs \in Perms(circuits(M))}

\* The circuits whose broken circuit is a subset of S.
BrokenIn(S) == {C \in circuits(M) : (C \ Minimal(C)) \subseteq S}

\* C10: when S contains the broken circuits of more than one circuit (several
\* recorded keys, or one key that two circuits share), subset_image(S) is the
\* value computed with every other dictionary of broken circuits of the same
\* matroid and ordering: whichever matching key the scan meets first, and
\* whichever minimal element is kept for a shared broken circuit.
C10_Confluence ==
    \A S \in SUBSET groundset(M) :
        (Returned(S) /\ Cardinality(BrokenIn(S)) >= 2) =>
            \A d \in Dictionaries :
                subset_image([self EXCEPT !.broken_circuits = d], zero, S) = result

\* C10 witness: S is independent and contains two recorded broken circuits, its
\* value is not zero, and another dictionary makes the scan find another key.
C10_Witness ==
    \E S \in SUBSET groundset(M) :
        /\ Returned(S)
        /\ Cardinality(Matching(S)) >= 2
        /\ result # zero
        /\ \E d \in Dictionaries :
              d[FirstMatch(d, S)][1] # broken_circuits[FirstMatch(broken_circuits, S)][1]

\* Two circuits share the only recorded broken circuit in S, either of their
\* minimal elements can be the one kept, and the value of S is not zero.
SharedKeyReduced ==
    \E S \in SUBSET groundset(M) :
        /\ Returned(S)
        /\ Cardinality(Matching(S)) = 1
        /\ Cardinality(BrokenIn(S)) >= 2
        /\ \E d \in Dictionaries : \E k \in DOMAIN d :
              d[k][1] \subseteq S /\ d[k][2] # broken_circuits[FirstMatch(broken_circuits, S)][2]
        /\ result # zero

\* PossibleDictionaries is the set of the dictionaries built from the
\* enumerations of the circuits.
DictionariesAgree == Dictionaries = PossibleDictionaries(M, sorting)

\* The number of calls of subset_image nested in the outermost call in progress.
NestingDepth == IF stack = << >> THEN 0 ELSE Len(stack) - 1

\* C11 as stated: during a call subset_image(S) the nesting depth of the
\* recursive calls never exceeds the number of elements of the ground set.
C11_DepthWithinGroundSet == NestingDepth <= Cardinality(groundset(M))

\* C11: during a call subset_image(S), S a subset of the ground set of n
\* elements, the nesting depth of the recursive calls never exceeds
\* |S| * (n - |S|): every recursive call is for a key of the size of S whose
\* elements stand lower in the ordering, taken together.
C11_DepthWithinRewritingBound ==
    stack # << >> =>
        /\ NestingDepth <= Cardinality(stack[1].S) *
                             (Cardinality(groundset(M)) - Cardinality(stack[1].S))
        /\ \A a \in DOMAIN stack : Cardinality(stack[a].S) = Cardinality(stack[1].S)
        /\ \A a \in DOMAIN stack : a > 1 => RankSum(stack[a].S) < RankSum(stack[a - 1].S)

\* C11 witness: the nesting depth has reached |S| * (n - |S|) and this is more
\* than the number of elements of the ground set.
C11_Witness ==
    /\ stack # << >>
    /\ NestingDepth = Cardinality(stack[1].S) *
                        (Cardinality(groundset(M)) - Cardinality(stack[1].S))
    /\ NestingDepth > Cardinality(groundset(M))

====
